---- MODULE Spec2Model ----
(***************************************************************************)
(* Chat clients of the Financial Assistant front end.                      *)
(*                                                                         *)
(* Two React components own a WebSocket:                                   *)
(*   App            (src/unnamed/part_000): reconnects 3 s after a close;  *)
(*   ChatInterface  (src/frontend/src/components/Login.tsx, lines 181-345):*)
(*                  one socket for the lifetime of the component.          *)
(* The variable `component' says which of the two is mounted; the browser  *)
(* (WebSocket object, timers, DOM enabling of controls) and the server     *)
(* (frames it delivers) are the environment.  One action is one browser    *)
(* task: a handler runs to completion before the next event.               *)
(***************************************************************************)
EXTENDS Bags, FiniteSets, Integers, Naturals, Sequences, TLC

VARIABLES
    component,    \* "App" or "ChatInterface": the component that is mounted
    mounted,      \* FALSE once the effect cleanup has run (unmount)
    sockets,      \* every WebSocket created so far, in creation order
    wsRef,        \* App: wsRef.current, an index into sockets (0 = null)
    socket,       \* ChatInterface: the `socket' state (0 = null)
    isConnected,  \* App: useState(false)
    isLoading,    \* useState(false)
    input,        \* useState('')
    messages,     \* useState<Message[]>([])
    timers,       \* bag of pending setTimeout callbacks [fn, delay]
    now,          \* the clock read by Date.now() / new Date()
    outbox,       \* history: every payload handed to WebSocket.send
    nProcessed,   \* history: number of entries ever appended to messages
    user,            \* useAuth: the identity, or Null
    token,           \* useAuth: the session token in memory, or Null
    isAuthenticated, \* useAuth
    authIsLoading,   \* useAuth: isLoading
    error,           \* useAuth: the reason of the last failure, or Null
    storage,         \* localStorage.getItem('token'), or Null
    inflight,        \* useAuth: the operation whose HTTP call is outstanding
    waiting,         \* useAuth: login calls that wait for the hook to be idle
    username,        \* Login: useState('')
    password,        \* Login: useState('')
    loginError,      \* Login: error, useState<string | null>(null)
    loginIsLoading,  \* Login: isLoading, useState(false)
    lastEvent        \* history: the last thing that happened to the session

chatVars == <<component, mounted, sockets, wsRef, socket, isConnected, isLoading,
              input, messages, timers, now, outbox, nProcessed>>

authVars == <<user, token, isAuthenticated, authIsLoading, error, storage,
              inflight, waiting, username, password, loginError,
              loginIsLoading, lastEvent>>

vars == <<chatVars, authVars>>

----------------------------------------------------------------------------
(* Bounds of the model.                                                    *)

MaxSockets == 2     \* sockets a client creates (first connection + reconnects)
MaxSends   == 2     \* payloads handed to WebSocket.send
MaxLog     == 3     \* entries appended to the conversation log
MaxClock   == 1     \* readings of the clock
MaxTimers  == 2     \* pending timers
MaxCalls   == 2     \* login calls that wait for the hook

----------------------------------------------------------------------------
(* Values.                                                                 *)

\* what the user can have typed: nothing, white space only, or a text with
\* white space after it; a string is the sequence of its characters
Texts == {<<>>, <<" ">>, <<"H", " ">>}

\* the timestamps the server puts in its frames (its clock is not the client's)
ServerTimestamps == {0}

\* the value of a property that a parsed frame does not have
Undefined == <<"undefined">>

\* WebSocket.readyState
CONNECTING == "CONNECTING"
OPEN       == "OPEN"
CLOSING    == "CLOSING"
CLOSED     == "CLOSED"

ReadyStates == {CONNECTING, OPEN, CLOSING, CLOSED}

Components == {"App", "ChatInterface"}

RECURSIVE TrimStart(_)
TrimStart(s) ==
    IF s # <<>> /\ Head(s) = " " THEN TrimStart(Tail(s)) ELSE s

RECURSIVE TrimEnd(_)
TrimEnd(s) ==
    IF s # <<>> /\ s[Len(s)] = " " THEN TrimEnd(SubSeq(s, 1, Len(s) - 1)) ELSE s

\* String.prototype.trim
Trim(s) == TrimEnd(TrimStart(s))

\* JavaScript truthiness of a string-or-undefined value
Truthy(v) == v # Undefined /\ v # <<>>

RECURSIVE NumberToString(_)
\* Number.prototype.toString for a non-negative integer: its decimal digits
NumberToString(n) ==
    LET digit == <<"0", "1", "2", "3", "4", "5", "6", "7", "8", "9">>
    IN  IF n < 10 THEN <<digit[n + 1]>>
        ELSE Append(NumberToString(n \div 10), digit[(n % 10) + 1])

----------------------------------------------------------------------------
(* The state as one record, so that handlers compose: a handler maps the   *)
(* state before it runs to the state after it has run.                     *)

Cur ==
    [component |-> component, mounted |-> mounted, sockets |-> sockets,
     wsRef |-> wsRef, socket |-> socket, isConnected |-> isConnected,
     isLoading |-> isLoading, input |-> input, messages |-> messages,
     timers |-> timers, now |-> now, outbox |-> outbox,
     nProcessed |-> nProcessed]

Becomes(st) ==
    /\ component' = st.component
    /\ mounted' = st.mounted
    /\ sockets' = st.sockets
    /\ wsRef' = st.wsRef
    /\ socket' = st.socket
    /\ isConnected' = st.isConnected
    /\ isLoading' = st.isLoading
    /\ input' = st.input
    /\ messages' = st.messages
    /\ timers' = st.timers
    /\ now' = st.now
    /\ outbox' = st.outbox
    /\ nProcessed' = st.nProcessed

\* React state setters: a setter of an unmounted component does nothing
setIsConnected(st, v) == IF st.mounted THEN [st EXCEPT !.isConnected = v] ELSE st

setIsLoading(st, v) == IF st.mounted THEN [st EXCEPT !.isLoading = v] ELSE st

setInput(st, v) == IF st.mounted THEN [st EXCEPT !.input = v] ELSE st

\* mutant: the entry is inserted by timestamp instead of at the end
setMessagesSorted(st, entry) ==
    IF st.mounted
    THEN LET e == [entry EXCEPT !.seq = st.nProcessed + 1]
             before == {i \in 1..Len(st.messages) :
                           \A j \in 1..i : st.messages[j].timestamp <= e.timestamp}
             n == Cardinality(before)
         IN  [st EXCEPT !.messages = SubSeq(@, 1, n) \o <<e>> \o SubSeq(@, n + 1, Len(@)),
                        !.nProcessed = @ + 1]
    ELSE st

\* setMessages(prev => [...prev, entry]); the history counter numbers the
\* entries in the order in which they were appended
setMessagesAppend(st, entry) ==
    IF st.mounted
    THEN [st EXCEPT !.messages = Append(@, [entry EXCEPT !.seq = st.nProcessed + 1]),
                    !.nProcessed = @ + 1]
    ELSE st

\* window.setTimeout(fn, delay)
setTimeout(st, fn, delay) ==
    [st EXCEPT !.timers = @ (+) SetToBag({[fn |-> fn, delay |-> delay]})]

\* new WebSocket(url): a socket in the CONNECTING state
NewWebSocket(st) == [st EXCEPT !.sockets = Append(@, [readyState |-> CONNECTING])]

\* WebSocket.send throws InvalidStateError while CONNECTING
SendThrows(st, ws) == st.sockets[ws].readyState = CONNECTING

\* WebSocket.send: transmitted when OPEN, silently discarded when CLOSING or
\* CLOSED; the outbox records what was handed to send and what became of it
SendOutcome(readyState) ==
    CASE readyState = CONNECTING -> "threw"
      [] readyState = OPEN       -> "sent"
      [] OTHER                   -> "dropped"

WebSocketSend(st, ws, payload) ==
    [st EXCEPT !.outbox = Append(@, [payload |-> payload, sock |-> ws,
                   outcome |-> SendOutcome(st.sockets[ws].readyState),
                   replied |-> FALSE])]

\* WebSocket.close(): starts the closing handshake unless already closing
WebSocketClose(st, ws) ==
    IF st.sockets[ws].readyState \in {CLOSING, CLOSED} THEN st
    ELSE [st EXCEPT !.sockets[ws].readyState = CLOSING]

----------------------------------------------------------------------------
(* App (src/unnamed/part_000).                                             *)

\* the delay of the reconnect timer, in milliseconds
ReconnectDelay == 3000

\* the delay of the scroll-to-bottom timer, in milliseconds
ScrollDelay == 100

\* mutant: the reconnect gives up the wait for the answer
connectWebSocket_stopsLoading(st) ==
    LET st1 == NewWebSocket(st)
    IN  setIsLoading([st1 EXCEPT !.wsRef = Len(st1.sockets)], FALSE)

\* mutant: the client is reported connected as soon as the socket is made
connectWebSocket_connected(st) ==
    LET st1 == NewWebSocket(st)
    IN  setIsConnected([st1 EXCEPT !.wsRef = Len(st1.sockets)], TRUE)

connectWebSocket(st) ==
    LET st1 == NewWebSocket(st)
    IN  [st1 EXCEPT !.wsRef = Len(st1.sockets)]

\* mutant: the new entry is put in front of the others
addMessage_prepend(st, text, isUser, originId) ==
    LET entry == [text |-> text, isUser |-> isUser, timestamp |-> st.now,
                  originId |-> originId, seq |-> st.nProcessed + 1]
        st1 == IF st.mounted
               THEN [st EXCEPT !.messages = <<entry>> \o @, !.nProcessed = @ + 1]
               ELSE st
    IN  setTimeout(st1, "scrollIntoView", ScrollDelay)

addMessage(st, text, isUser, originId) ==
    LET st1 == setMessagesAppend(st, [text |-> text, isUser |-> isUser,
                                      timestamp |-> st.now,
                                      originId |-> originId, seq |-> 0])
    IN  setTimeout(st1, "scrollIntoView", ScrollDelay)

\* mutant: the open handler sends again the frames that have no answer yet
App_onopen_resend(st) ==
    LET unanswered == {i \in 1..Len(st.outbox) : ~st.outbox[i].replied}
        st1 == setIsConnected(st, TRUE)
    IN  IF unanswered = {} THEN st1
        ELSE WebSocketSend(st1, st.wsRef,
                 st.outbox[CHOOSE i \in unanswered : TRUE].payload)

\* mutant: the open handler sends an authentication frame
App_onopen_auth(st) ==
    WebSocketSend(setIsConnected(st, TRUE), st.wsRef,
                  [type |-> "auth", token |-> "t1"])

App_onopen(st) == setIsConnected(st, TRUE)

\* mutant: a frame that answers a request already answered in the log is
\* discarded
App_onmessage_dedup(st, event) ==
    IF ~event.json THEN st
    ELSE LET duplicate ==
                 /\ event.originId # 0
                 /\ \E k \in 1..Len(st.messages) :
                        ~st.messages[k].isUser /\ st.messages[k].originId = event.originId
             st1 == IF Truthy(event.response) /\ ~duplicate
                    THEN addMessage(st, event.response, FALSE, event.originId)
                    ELSE st
         IN  setIsLoading(st1, FALSE)

\* mutant: the handler closes the socket once the answer is stored
App_onmessage_closeAfterReply(st, event) ==
    IF ~event.json THEN st
    ELSE LET st1 == IF Truthy(event.response)
                    THEN addMessage(st, event.response, FALSE, event.originId)
                    ELSE st
         IN  WebSocketClose(setIsLoading(st1, FALSE), st.wsRef)

\* mutant: a frame that does not parse is shown as an entry of the log
App_onmessage_errorEntry(st, event) ==
    IF ~event.json THEN addMessage(st, <<"E">>, FALSE, 0)
    ELSE LET st1 == IF Truthy(event.response)
                    THEN addMessage(st, event.response, FALSE, event.originId)
                    ELSE st
         IN  setIsLoading(st1, FALSE)

\* JSON.parse throws on a malformed frame and the rest of the handler is
\* skipped; otherwise an entry is added when data.response is truthy and the
\* loading flag is cleared whatever the frame was
App_onmessage(st, event) ==
    IF ~event.json THEN st
    ELSE LET st1 == IF Truthy(event.response)
                    THEN addMessage(st, event.response, FALSE, event.originId)
                    ELSE st
         IN  setIsLoading(st1, FALSE)

\* mutant: the close handler reports the client connected
App_onclose_connected(st) ==
    setTimeout(setIsConnected(st, TRUE), "connectWebSocket", ReconnectDelay)

\* mutant: the close handler backs off, doubling the delay for every socket
\* created so far
App_onclose_backoff(st) ==
    setTimeout(setIsConnected(st, FALSE), "connectWebSocket",
               1000 * 2 ^ (Len(st.sockets) - 1))

App_onclose(st) ==
    setTimeout(setIsConnected(st, FALSE), "connectWebSocket", ReconnectDelay)

\* mutant: the error handler schedules a reconnect as the close handler does
App_onerror_reconnect(st) ==
    setTimeout(setIsConnected(st, FALSE), "connectWebSocket", ReconnectDelay)

App_onerror(st) == setIsConnected(st, FALSE)

\* the connection-status element of the header (lines 82-84)
App_connectionStatus(st) == IF st.isConnected THEN "Connected" ELSE "Disconnected"

\* the controls of the form (render, lines 111-122)
App_inputDisabled(st) == ~st.isConnected \/ st.isLoading

App_buttonDisabled(st) ==
    ~st.isConnected \/ st.isLoading \/ Trim(st.input) = <<>>

\* mutant: the frame carries the trimmed input, the entry the input
handleSubmit_trimmed(st) ==
    IF Trim(st.input) = <<>> \/ st.wsRef = 0 \/ ~st.isConnected THEN st
    ELSE LET st1 == addMessage(st, st.input, TRUE, Len(st.outbox) + 1)
             st2 == WebSocketSend(st1, st.wsRef,
                        [message |-> Trim(st.input), user_id |-> "default"])
         IN  IF SendThrows(st, st.wsRef) THEN st2
             ELSE setIsLoading(setInput(st2, <<>>), TRUE)

\* mutant: a submit that does not start the wait for the answer
handleSubmit_notLoading(st) ==
    IF Trim(st.input) = <<>> \/ st.wsRef = 0 \/ ~st.isConnected THEN st
    ELSE LET st1 == addMessage(st, st.input, TRUE, Len(st.outbox) + 1)
             st2 == WebSocketSend(st1, st.wsRef,
                        [message |-> st.input, user_id |-> "default"])
         IN  IF SendThrows(st, st.wsRef) THEN st2
             ELSE setInput(st2, <<>>)

handleSubmit(st) ==
    IF Trim(st.input) = <<>> \/ st.wsRef = 0 \/ ~st.isConnected THEN st
    ELSE LET st1 == addMessage(st, st.input, TRUE, Len(st.outbox) + 1)
             st2 == WebSocketSend(st1, st.wsRef,
                        [message |-> st.input, user_id |-> "default"])
         IN  IF SendThrows(st, st.wsRef) THEN st2
             ELSE setIsLoading(setInput(st2, <<>>), TRUE)

\* the cleanup of the effect (lines 20-24)
App_cleanup(st) ==
    LET st1 == IF st.wsRef # 0 THEN WebSocketClose(st, st.wsRef) ELSE st
    IN  [st1 EXCEPT !.mounted = FALSE]

----------------------------------------------------------------------------
(* ChatInterface (src/frontend/src/components/Login.tsx, lines 181-345).   *)

ChatInterface_onopen(st) == st

ChatInterface_onmessage(st, event) ==
    IF ~event.json THEN st
    ELSE LET st1 == setMessagesAppend(st,
                        [id |-> NumberToString(st.now), content |-> event.message,
                         isUser |-> FALSE, timestamp |-> event.timestamp,
                         originId |-> event.originId, seq |-> 0])
         IN  setIsLoading(st1, FALSE)

ChatInterface_onerror(st) == setIsLoading(st, FALSE)

ChatInterface_onclose(st) == st

\* the controls (render, lines 313-341)
\* the view has no element that depends on the connection (lines 262-345)
ChatInterface_connectionStatus(st) == "none"

ChatInterface_inputDisabled(st) == st.isLoading

ChatInterface_buttonDisabled(st) == Trim(st.input) = <<>> \/ st.isLoading

\* mutant: the frame is handed to the socket before the entry is appended
handleSend_sendFirst(st) ==
    IF Trim(st.input) = <<>> \/ st.socket = 0 \/ st.isLoading THEN st
    ELSE LET message == [id |-> NumberToString(st.now), content |-> st.input,
                         isUser |-> TRUE, timestamp |-> st.now,
                         originId |-> Len(st.outbox) + 1, seq |-> 0]
             st1 == WebSocketSend(st, st.socket, [text |-> st.input])
         IN  IF SendThrows(st, st.socket) THEN setIsLoading(st1, FALSE)
             ELSE setIsLoading(setInput(setMessagesAppend(st1, message), <<>>), TRUE)

\* mutant: when send throws, the entry just appended is taken back
handleSend_rollback(st) ==
    IF Trim(st.input) = <<>> \/ st.socket = 0 \/ st.isLoading THEN st
    ELSE LET message == [id |-> NumberToString(st.now), content |-> st.input,
                         isUser |-> TRUE, timestamp |-> st.now,
                         originId |-> Len(st.outbox) + 1, seq |-> 0]
             st1 == setIsLoading(setInput(setMessagesAppend(st, message), <<>>), TRUE)
             st2 == WebSocketSend(st1, st.socket, [text |-> st.input])
         IN  IF SendThrows(st, st.socket)
             THEN [setIsLoading(st2, FALSE) EXCEPT !.messages = st.messages]
             ELSE st2

\* mutant: the guard tests the input as it is, not trimmed
handleSend_noTrim(st) ==
    IF st.input = <<>> \/ st.socket = 0 \/ st.isLoading THEN st
    ELSE LET message == [id |-> NumberToString(st.now), content |-> st.input,
                         isUser |-> TRUE, timestamp |-> st.now,
                         originId |-> Len(st.outbox) + 1, seq |-> 0]
             st1 == setIsLoading(setInput(setMessagesAppend(st, message), <<>>), TRUE)
             st2 == WebSocketSend(st1, st.socket, [text |-> st.input])
         IN  IF SendThrows(st, st.socket) THEN setIsLoading(st2, FALSE)
             ELSE st2

handleSend(st) ==
    IF Trim(st.input) = <<>> \/ st.socket = 0 \/ st.isLoading THEN st
    ELSE LET message == [id |-> NumberToString(st.now), content |-> st.input,
                         isUser |-> TRUE, timestamp |-> st.now,
                         originId |-> Len(st.outbox) + 1, seq |-> 0]
             st1 == setIsLoading(setInput(setMessagesAppend(st, message), <<>>), TRUE)
             st2 == WebSocketSend(st1, st.socket, [text |-> st.input])
         IN  IF SendThrows(st, st.socket) THEN setIsLoading(st2, FALSE)
             ELSE st2

\* a clear that also gives up the wait for the answer
handleClearChat_reset(st) == [st EXCEPT !.messages = <<>>, !.isLoading = FALSE]

handleClearChat(st) == [st EXCEPT !.messages = <<>>]

ChatInterface_cleanup(st) ==
    [WebSocketClose(st, 1) EXCEPT !.mounted = FALSE]

handleKeyPress(st) == handleSend(st)

----------------------------------------------------------------------------
(* The session: the useAuth hook and the Login form.  The hook itself is   *)
(* not among the sources; it is modelled from its tests (Login.tsx, lines  *)
(* 348-598) and from sections 4.1 and 5 of the specification, by which the *)
(* operations of the hook are serialized.  The Login form is               *)
(* src/frontend/src/components/Login.tsx, lines 32-112.                    *)

Null == "null"

Tokens == {"t1", "t2"}

Users == {"testuser"}

\* the reasons with which the backend rejects a call
ErrorReasons == {"InvalidCredentials", "NetworkUnavailable", "ServerError"}

\* what the user can have typed in a field of the form
Credentials == {<<>>, <<"x">>}

Idle == [op |-> "none", step |-> "none", token |-> Null]

CurAuth ==
    [user |-> user, token |-> token, isAuthenticated |-> isAuthenticated,
     authIsLoading |-> authIsLoading, error |-> error, storage |-> storage,
     inflight |-> inflight, waiting |-> waiting, username |-> username,
     password |-> password, loginError |-> loginError,
     loginIsLoading |-> loginIsLoading, lastEvent |-> lastEvent]

BecomesAuth(a) ==
    /\ user' = a.user
    /\ token' = a.token
    /\ isAuthenticated' = a.isAuthenticated
    /\ authIsLoading' = a.authIsLoading
    /\ error' = a.error
    /\ storage' = a.storage
    /\ inflight' = a.inflight
    /\ waiting' = a.waiting
    /\ username' = a.username
    /\ password' = a.password
    /\ loginError' = a.loginError
    /\ loginIsLoading' = a.loginIsLoading
    /\ lastEvent' = a.lastEvent

\* the hook before anything is persisted or typed
AuthBlank ==
    [user |-> Null, token |-> Null, isAuthenticated |-> FALSE,
     authIsLoading |-> FALSE, error |-> Null, storage |-> Null,
     inflight |-> Idle, waiting |-> 0, username |-> <<>>, password |-> <<>>,
     loginError |-> Null, loginIsLoading |-> FALSE, lastEvent |-> "start"]

\* the token exchange of a login is issued
loginStart(a) ==
    [a EXCEPT !.authIsLoading = TRUE, !.error = Null,
              !.inflight = [op |-> "login", step |-> "post", token |-> Null]]

\* login(username, password): the call waits while the hook is busy
login(a) ==
    IF a.inflight.op = "none" THEN loginStart(a)
    ELSE [a EXCEPT !.waiting = @ + 1]

\* the operation in flight is over
settle(a) == [a EXCEPT !.inflight = Idle]

\* the hook is idle again: a login call that waited is started
loginResume(a) == loginStart([a EXCEPT !.waiting = @ - 1])

\* the credentials are absent from memory and from durable storage
clearCredentials(a) ==
    [a EXCEPT !.user = Null, !.token = Null, !.isAuthenticated = FALSE,
              !.storage = Null]

\* the token exchange succeeded: the identity is fetched with the token
loginTokenReceived(a, t) ==
    [a EXCEPT !.inflight = [op |-> "login", step |-> "get", token |-> t]]

\* a login that does not persist the token
loginSucceeded_memoryOnly(a, u) ==
    settle([a EXCEPT !.user = u, !.token = a.inflight.token,
                     !.isAuthenticated = TRUE, !.authIsLoading = FALSE,
                     !.error = Null])

\* the login succeeded: the credentials are stored in memory and durably
loginSucceeded(a, u) ==
    settle([a EXCEPT !.user = u, !.token = a.inflight.token,
                     !.isAuthenticated = TRUE, !.authIsLoading = FALSE,
                     !.error = Null, !.storage = a.inflight.token])

\* a failed login that has persisted the token it received
loginFailed_partial(a, reason) ==
    settle([a EXCEPT !.user = Null, !.token = Null, !.isAuthenticated = FALSE,
                     !.authIsLoading = FALSE, !.error = reason,
                     !.storage = a.inflight.token])

\* the login failed, at the token exchange or at the identity fetch
loginFailed(a, reason) ==
    settle([clearCredentials(a) EXCEPT !.authIsLoading = FALSE, !.error = reason])

\* restore(): the effect of the provider at startup
restore(a) ==
    IF a.storage # Null
    THEN [a EXCEPT !.authIsLoading = TRUE,
                   !.inflight = [op |-> "restore", step |-> "get",
                                 token |-> a.storage]]
    ELSE a

restoreSucceeded(a, u) ==
    settle([a EXCEPT !.user = u, !.token = a.inflight.token,
                     !.isAuthenticated = TRUE, !.authIsLoading = FALSE,
                     !.error = Null])

\* a rejected restore that leaves the persisted token in place
restoreFailed_keepsToken(a, reason) ==
    settle([a EXCEPT !.user = Null, !.token = Null, !.isAuthenticated = FALSE,
                     !.authIsLoading = FALSE, !.error = reason])

restoreFailed(a, reason) ==
    settle([clearCredentials(a) EXCEPT !.authIsLoading = FALSE, !.error = reason])

\* a logout that forgets the durable storage
logout_memoryOnly(a) ==
    [a EXCEPT !.user = Null, !.token = Null, !.isAuthenticated = FALSE]

logout(a) == clearCredentials(a)

\* Login.handleSubmit up to the await (lines 40-45)
Login_handleSubmit(a) ==
    login([a EXCEPT !.loginError = Null, !.loginIsLoading = TRUE])

\* Login.handleSubmit after the await: the catch and the finally (lines 46-50)
Login_afterLogin(a, rejected) ==
    LET a1 == IF rejected
              THEN [a EXCEPT !.loginError = "Invalid username or password"]
              ELSE a
    IN  [a1 EXCEPT !.loginIsLoading = FALSE]

\* the controls of the form (lines 70-103)
Login_fieldDisabled(a) == a.loginIsLoading

\* a submit button that stays enabled
Login_buttonDisabled_never(a) == FALSE

Login_buttonDisabled(a) == a.loginIsLoading

\* the fields are required: the browser does not submit the form otherwise
Login_formValid(a) == a.username # <<>> /\ a.password # <<>>

\* what part_000's App renders (lines 78-124): the chat, whatever the session
App_render(st, a) == "chat"

----------------------------------------------------------------------------
(* The environment: the browser's WebSocket and timers, the server, the    *)
(* user.                                                                   *)

onopen(st) ==
    IF st.component = "App" THEN App_onopen(st) ELSE ChatInterface_onopen(st)

onmessage(st, event) ==
    IF st.component = "App" THEN App_onmessage(st, event)
    ELSE ChatInterface_onmessage(st, event)

onerror(st) ==
    IF st.component = "App" THEN App_onerror(st) ELSE ChatInterface_onerror(st)

onclose(st) ==
    IF st.component = "App" THEN App_onclose(st) ELSE ChatInterface_onclose(st)

cleanup(st) ==
    IF st.component = "App" THEN App_cleanup(st) ELSE ChatInterface_cleanup(st)

connectionStatus(st) ==
    IF st.component = "App" THEN App_connectionStatus(st)
    ELSE ChatInterface_connectionStatus(st)

inputDisabled(st) ==
    IF st.component = "App" THEN App_inputDisabled(st)
    ELSE ChatInterface_inputDisabled(st)

\* the bodies a frame can carry in the property the component reads
Bodies == {Undefined, <<>>, <<"H">>}

\* the frames the server can deliver: a frame that does not parse, or a JSON
\* object that answers request originId of the outbox (0: an envelope the
\* server sends on its own, such as a typing or system notice)
Frames(st) ==
    {[json |-> FALSE, response |-> Undefined, message |-> Undefined,
      timestamp |-> 0, originId |-> 0]}
    \cup
    {[json |-> TRUE,
      response |-> IF st.component = "App" THEN b ELSE Undefined,
      message |-> IF st.component = "App" THEN Undefined ELSE b,
      timestamp |-> t, originId |-> o] :
        b \in Bodies,
        t \in ServerTimestamps,
        o \in {0} \cup {i \in 1..Len(st.outbox) : st.outbox[i].outcome = "sent"}}

\* the server's answer to a request has arrived
MarkReplied(st, event) ==
    IF event.json /\ event.originId # 0
    THEN [st EXCEPT !.outbox[event.originId].replied = TRUE]
    ELSE st

Bounded(st) ==
    /\ Len(st.sockets) <= MaxSockets
    /\ Len(st.outbox) <= MaxSends
    /\ st.nProcessed <= MaxLog
    /\ BagCardinality(st.timers) <= MaxTimers

Step(st) == Bounded(st) /\ Becomes(st) /\ UNCHANGED authVars

Blank ==
    [component |-> "App", mounted |-> TRUE, sockets |-> <<>>, wsRef |-> 0,
     socket |-> 0, isConnected |-> FALSE, isLoading |-> FALSE, input |-> <<>>,
     messages |-> <<>>, timers |-> EmptyBag, now |-> 0, outbox |-> <<>>,
     nProcessed |-> 0]

\* mutant: the effect runs twice without a cleanup in between
App_useEffect_twice(st) == connectWebSocket(connectWebSocket(st))

\* the effect that runs when the component is mounted
App_useEffect(st) == connectWebSocket(st)

ChatInterface_useEffect(st) ==
    LET st1 == NewWebSocket(st)
    IN  [st1 EXCEPT !.socket = Len(st1.sockets)]

InitAuth(a) ==
    /\ user = a.user
    /\ token = a.token
    /\ isAuthenticated = a.isAuthenticated
    /\ authIsLoading = a.authIsLoading
    /\ error = a.error
    /\ storage = a.storage
    /\ inflight = a.inflight
    /\ waiting = a.waiting
    /\ username = a.username
    /\ password = a.password
    /\ loginError = a.loginError
    /\ loginIsLoading = a.loginIsLoading
    /\ lastEvent = a.lastEvent

Init ==
    \E c \in Components :
        LET st == [Blank EXCEPT !.component = c]
            st1 == IF c = "App" THEN App_useEffect(st) ELSE ChatInterface_useEffect(st)
        IN  /\ component = st1.component
            /\ mounted = st1.mounted
            /\ sockets = st1.sockets
            /\ wsRef = st1.wsRef
            /\ socket = st1.socket
            /\ isConnected = st1.isConnected
            /\ isLoading = st1.isLoading
            /\ input = st1.input
            /\ messages = st1.messages
            /\ timers = st1.timers
            /\ now = st1.now
            /\ outbox = st1.outbox
            /\ nProcessed = st1.nProcessed
            /\ InitAuth(AuthBlank)

\* the connection is established: readyState becomes OPEN, open is fired
TransportOpen ==
    \E s \in 1..Len(sockets) :
        /\ sockets[s].readyState = CONNECTING
        /\ Step(onopen([Cur EXCEPT !.sockets[s].readyState = OPEN]))

\* the closing handshake is started by the server: readyState becomes
\* CLOSING and no event is fired
TransportClosing ==
    \E s \in 1..Len(sockets) :
        /\ sockets[s].readyState = OPEN
        /\ Step([Cur EXCEPT !.sockets[s].readyState = CLOSING])

\* the connection is closed: readyState becomes CLOSED, then error is fired
\* if the connection failed (always so when it never opened), then close
TransportClose ==
    \E s \in 1..Len(sockets), failed \in BOOLEAN :
        /\ sockets[s].readyState # CLOSED
        /\ sockets[s].readyState = CONNECTING => failed
        /\ LET st1 == [Cur EXCEPT !.sockets[s].readyState = CLOSED]
               st2 == IF failed THEN onerror(st1) ELSE st1
           IN  Step(onclose(st2))

\* the frame event arrives on socket s: message is fired
DeliverFrame(s, event) ==
    /\ sockets[s].readyState \in {OPEN, CLOSING}
    /\ Step(onmessage(MarkReplied(Cur, event), event))

TransportMessage ==
    \E s \in 1..Len(sockets), event \in Frames(Cur) : DeliverFrame(s, event)

\* a timer expires and its callback runs
TimerFires ==
    \E t \in BagToSet(timers) :
        LET st1 == [Cur EXCEPT !.timers = @ (-) SetToBag({t})]
        IN  Step(IF t.fn = "connectWebSocket" THEN connectWebSocket(st1) ELSE st1)

\* the user edits the input field (onChange), when it is not disabled
UserTypes ==
    /\ mounted
    /\ ~inputDisabled(Cur)
    /\ \E t \in Texts : Step(setInput(Cur, t))

\* App: the user submits the form; a disabled submit button blocks it
SubmitForm ==
    /\ mounted
    /\ component = "App"
    /\ Step(IF App_buttonDisabled(Cur) THEN Cur ELSE handleSubmit(Cur))

\* ChatInterface: the user clicks the send button; nothing if it is disabled
ClickSend ==
    /\ mounted
    /\ component = "ChatInterface"
    /\ Step(IF ChatInterface_buttonDisabled(Cur) THEN Cur ELSE handleSend(Cur))

\* ChatInterface: the user presses Enter in the input field; a disabled
\* field receives no key
PressEnter ==
    /\ mounted
    /\ component = "ChatInterface"
    /\ Step(IF ChatInterface_inputDisabled(Cur) THEN Cur ELSE handleKeyPress(Cur))

\* ChatInterface: the user clicks the clear button
ClickClear ==
    /\ mounted
    /\ component = "ChatInterface"
    /\ Step(handleClearChat(Cur))

\* the component is unmounted: the cleanup of its effect runs
Unmount ==
    /\ mounted
    /\ Step(cleanup(Cur))

\* time passes
Tick ==
    /\ now < MaxClock
    /\ Step([Cur EXCEPT !.now = @ + 1])

Next ==
    \/ TransportOpen
    \/ TransportClosing
    \/ TransportClose
    \/ TransportMessage
    \/ TimerFires
    \/ UserTypes
    \/ SubmitForm
    \/ ClickSend
    \/ PressEnter
    \/ ClickClear
    \/ Unmount
    \/ Tick

Spec == Init /\ [][Next]_vars

\* the timers and the transport events are scheduled by the browser: a
\* pending timer fires, and a socket that is connecting opens or fails
FairSpec ==
    /\ Spec
    /\ WF_vars(TimerFires)
    /\ WF_vars(TransportOpen \/ TransportClose)

\* the behaviours in which a timer that is due fires, while the transport
\* may stay silent for ever
SilentSpec ==
    /\ Spec
    /\ WF_vars(TimerFires)

----------------------------------------------------------------------------
(* The session on its own: App is mounted and the transport does not move; *)
(* the user, the backend and the hook do.                                  *)

StepAuth(a) == a.waiting <= MaxCalls /\ BecomesAuth(a) /\ UNCHANGED chatVars

\* startup: a token may have been persisted by an earlier session
InitSession ==
    /\ LET st1 == App_useEffect(Blank)
       IN  /\ component = st1.component
           /\ mounted = st1.mounted
           /\ sockets = st1.sockets
           /\ wsRef = st1.wsRef
           /\ socket = st1.socket
           /\ isConnected = st1.isConnected
           /\ isLoading = st1.isLoading
           /\ input = st1.input
           /\ messages = st1.messages
           /\ timers = st1.timers
           /\ now = st1.now
           /\ outbox = st1.outbox
           /\ nProcessed = st1.nProcessed
    /\ \E persisted \in {Null} \cup Tokens :
           InitAuth(restore([AuthBlank EXCEPT !.storage = persisted]))

\* the user edits the username field
TypeUsername ==
    /\ ~Login_fieldDisabled(CurAuth)
    /\ \E v \in Credentials :
           StepAuth([CurAuth EXCEPT !.username = v, !.lastEvent = "type"])

\* the user edits the password field
TypePassword ==
    /\ ~Login_fieldDisabled(CurAuth)
    /\ \E v \in Credentials :
           StepAuth([CurAuth EXCEPT !.password = v, !.lastEvent = "type"])

\* the user submits the login form
SubmitLogin ==
    /\ ~Login_buttonDisabled(CurAuth)
    /\ Login_formValid(CurAuth)
    /\ StepAuth([Login_handleSubmit(CurAuth) EXCEPT !.lastEvent = "login"])

\* the user closes the error alert of the form (line 64)
CloseLoginError ==
    /\ loginError # Null
    /\ StepAuth([CurAuth EXCEPT !.loginError = Null, !.lastEvent = "closeAlert"])

\* the backend answers the token exchange with a token
PostResolves ==
    /\ inflight.op = "login"
    /\ inflight.step = "post"
    /\ \E t \in Tokens :
           StepAuth([loginTokenReceived(CurAuth, t) EXCEPT !.lastEvent = "token"])

\* the backend rejects the token exchange
PostRejects ==
    /\ inflight.op = "login"
    /\ inflight.step = "post"
    /\ \E reason \in ErrorReasons :
           StepAuth([Login_afterLogin(loginFailed(CurAuth, reason), TRUE)
                        EXCEPT !.lastEvent = "loginFailedAtPost"])

\* the backend answers the identity fetch
GetResolves ==
    /\ inflight.step = "get"
    /\ \E u \in Users :
           IF inflight.op = "login"
           THEN StepAuth([Login_afterLogin(loginSucceeded(CurAuth, u), FALSE)
                             EXCEPT !.lastEvent = "loginOk"])
           ELSE StepAuth([restoreSucceeded(CurAuth, u)
                             EXCEPT !.lastEvent = "restoreOk"])

\* the backend rejects the identity fetch
GetRejects ==
    /\ inflight.step = "get"
    /\ \E reason \in ErrorReasons :
           IF inflight.op = "login"
           THEN StepAuth([Login_afterLogin(loginFailed(CurAuth, reason), TRUE)
                             EXCEPT !.lastEvent = "loginFailedAtGet"])
           ELSE StepAuth([restoreFailed(CurAuth, reason)
                             EXCEPT !.lastEvent = "restoreFailed"])

\* a login call that waited for the hook is started
LoginStarts ==
    /\ inflight.op = "none"
    /\ waiting > 0
    /\ StepAuth([loginResume(CurAuth) EXCEPT !.lastEvent = "loginResumed"])

\* logout() is called; the operations of the session are serialized, so no
\* other operation is in flight or waiting
Logout ==
    /\ inflight.op = "none"
    /\ waiting = 0
    /\ StepAuth([logout(CurAuth) EXCEPT
                    !.lastEvent = IF lastEvent \in {"logout", "logoutAgain"}
                                  THEN "logoutAgain"
                                  ELSE IF isAuthenticated THEN "logout"
                                  ELSE "logoutWithoutSession"])

NextSession ==
    \/ TypeUsername
    \/ TypePassword
    \/ SubmitLogin
    \/ CloseLoginError
    \/ PostResolves
    \/ PostRejects
    \/ GetResolves
    \/ GetRejects
    \/ LoginStarts
    \/ Logout

SessionSpec == InitSession /\ [][NextSession]_vars

----------------------------------------------------------------------------
(* Properties.                                                             *)

Live(s) == sockets[s].readyState \in {CONNECTING, OPEN}

PendingReconnect == \E t \in BagToSet(timers) : t.fn = "connectWebSocket"

\* C1: after the client is shut down (unmount), no new socket is ever
\* created: Closed is terminal.
C1_ClosedIsTerminal ==
    [][~mounted => Len(sockets') = Len(sockets)]_vars

\* C2: whenever the socket has closed or failed to open while the user has
\* not closed the client, a new connection attempt is eventually made.
C2_AlwaysRetried ==
    (mounted /\ Len(sockets) < MaxSockets
        /\ \A s \in 1..Len(sockets) : sockets[s].readyState = CLOSED)
    ~> (~mounted \/ \E s \in 1..Len(sockets) : Live(s))

\* C3: the client is reported connected only by the open event of the socket
\* it holds, which was connecting until then; it never becomes connected
\* from a state in which no socket was connecting.
C3_ConnectedOnlyByOpen ==
    [][(isConnected' /\ ~isConnected) =>
          /\ wsRef \in 1..Len(sockets)
          /\ sockets[wsRef].readyState = CONNECTING
          /\ sockets'[wsRef].readyState = OPEN]_vars

C3_Witness ==
    /\ component = "App"
    /\ isConnected
    /\ Len(sockets) >= 2
    /\ sockets[wsRef].readyState = OPEN

\* C4: at most one transport connection is not closed at any time: a new
\* socket exists only once every earlier one is closed.
C4_OneLiveTransport ==
    Cardinality({s \in 1..Len(sockets) : sockets[s].readyState # CLOSED}) <= 1

C4_Witness ==
    /\ component = "App"
    /\ Len(sockets) >= 2
    /\ sockets[1].readyState = CLOSED
    /\ Live(Len(sockets))

\* min(baseDelay * 2^retryCount, maxDelay) with the defaults 1 s and 30 s
Backoff(retryCount) ==
    IF 1000 * 2 ^ retryCount < 30000 THEN 1000 * 2 ^ retryCount ELSE 30000

\* delay is within 20% of base
InJitter(delay, base) == 5 * delay >= 4 * base /\ 5 * delay <= 6 * base

\* C5 (as claimed): the delay of every reconnect timer is within 20% of
\* min(1 s * 2^retryCount, 30 s) for the retry count at hand (from 5 retries
\* on the backoff is the maximum, 30 s).
C5_BackoffDelay ==
    \A t \in BagToSet(timers) :
        t.fn = "connectWebSocket" =>
            \E retryCount \in 0..5 : InJitter(t.delay, Backoff(retryCount))

\* C5 (amended): the delay of every reconnect timer is 3000 ms, whatever the
\* number of failures before it; it never exceeds 30 s.
C5_FixedDelay ==
    \A t \in BagToSet(timers) :
        t.fn = "connectWebSocket" => t.delay = 3000 /\ t.delay <= 30000

C5_Witness ==
    /\ component = "App"
    /\ Len(sockets) >= 2
    /\ sockets[Len(sockets)].readyState = CLOSED
    /\ PendingReconnect

\* C6: the log lists its entries in the order in which the sends and the
\* arrivals were processed, whatever their timestamps: a user message and
\* the server's answer to it are in the log in that order.
C6_ArrivalOrder ==
    /\ \A j, k \in 1..Len(messages) :
          j < k => messages[j].seq < messages[k].seq
    /\ \A j, k \in 1..Len(messages) :
          (/\ messages[j].isUser
           /\ ~messages[k].isUser
           /\ messages[k].originId = messages[j].originId) => j < k

C6_Witness ==
    /\ component = "ChatInterface"
    /\ Len(messages) = 2
    /\ nProcessed = 2
    /\ messages[1].isUser
    /\ messages[1].content = <<"H", " ">>
    /\ ~messages[2].isUser
    /\ messages[2].content = <<"H">>
    /\ messages[2].originId = messages[1].originId
    /\ messages[2].timestamp < messages[1].timestamp

\* a request that was transmitted and has neither been answered nor been
\* lost with its connection
Awaiting(i) ==
    /\ outbox[i].outcome = "sent"
    /\ ~outbox[i].replied
    /\ sockets[outbox[i].sock].readyState # CLOSED

\* C7: at most one user message is awaiting a reply at any time.
C7_AtMostOneAwaiting ==
    Cardinality({i \in 1..Len(outbox) : Awaiting(i)}) <= 1

\* C8 (as claimed): a message submitted while the client is not connected is
\* not rejected: whenever the user has a text to send and the client is not
\* connected, the submit appends an entry to the log.
C8_AppendedWhileDisconnected ==
    (/\ mounted
     /\ component = "App"
     /\ ~isConnected
     /\ Trim(input) # <<>>
     /\ nProcessed < MaxLog
     /\ Len(outbox) < MaxSends
     /\ BagCardinality(timers) < MaxTimers) =>
        ENABLED (SubmitForm /\ Len(messages') = Len(messages) + 1)

\* C8 (amended): nothing is queued.  In App a submit while not connected
\* changes nothing; in ChatInterface a send while the socket is not open
\* appends the entry and hands the frame to the socket, which does not
\* transmit it; and what became of a frame never changes afterwards.
C8_NotQueued ==
    [][/\ (SubmitForm /\ ~isConnected) => UNCHANGED vars
       /\ (/\ ClickSend \/ PressEnter
           /\ Trim(input) # <<>>
           /\ ~isLoading
           /\ sockets[socket].readyState # OPEN) =>
              /\ Len(messages') = Len(messages) + 1
              /\ messages'[Len(messages')].isUser
              /\ Len(outbox') = Len(outbox) + 1
              /\ outbox'[Len(outbox')].outcome # "sent"
       /\ \A i \in 1..Len(outbox) :
              /\ outbox'[i].outcome = outbox[i].outcome
              /\ outbox'[i].sock = outbox[i].sock]_vars

C8_Witness ==
    /\ component = "ChatInterface"
    /\ Len(outbox) >= 1
    /\ outbox[1].outcome = "threw"
    /\ Len(messages) >= 1
    /\ messages[1].isUser
    /\ sockets[socket].readyState = OPEN

\* C9 (as claimed): a message that was transmitted and not answered when its
\* connection dropped has been sent again once a later connection is open.
C9_ResentAfterReconnect ==
    \A i \in 1..Len(outbox) :
        (/\ outbox[i].outcome = "sent"
         /\ ~outbox[i].replied
         /\ sockets[outbox[i].sock].readyState = CLOSED
         /\ \E s \in 1..Len(sockets) :
                s > outbox[i].sock /\ sockets[s].readyState = OPEN) =>
            \E j \in 1..Len(outbox) :
                /\ j > i
                /\ outbox[j].sock > outbox[i].sock
                /\ outbox[j].payload = outbox[i].payload

\* C9 (amended): no message is ever sent again: a frame is handed to the
\* socket only by a submit of the user, one frame for the one user entry
\* that the submit appends, and never on reconnection.
C9_NeverResent ==
    [][Len(outbox') # Len(outbox) =>
          /\ SubmitForm \/ ClickSend \/ PressEnter
          /\ Len(outbox') = Len(outbox) + 1
          /\ Len(messages') = Len(messages) + 1
          /\ messages'[Len(messages')].isUser
          /\ messages'[Len(messages')].originId = Len(outbox')]_vars

C9_Witness ==
    /\ component = "App"
    /\ isConnected
    /\ Len(sockets) >= 2
    /\ sockets[wsRef].readyState = OPEN
    /\ Len(outbox) = 1
    /\ outbox[1].outcome = "sent"
    /\ outbox[1].sock = 1
    /\ ~outbox[1].replied

\* C10 (as claimed): the log never holds two entries for the same server
\* envelope (the answer to the same request).
C10_NoDuplicateEntries ==
    \A j, k \in 1..Len(messages) :
        (/\ ~messages[j].isUser
         /\ ~messages[k].isUser
         /\ messages[j].originId # 0
         /\ messages[j].originId = messages[k].originId) => j = k

\* the frame is one that the handler stores: it parses and, in App, carries
\* a non-empty response
Stored(event) ==
    event.json /\ (component = "App" => Truthy(event.response))

\* C10 (amended): there is no de-duplication: every frame that arrives while
\* the component is mounted and that the handler stores appends exactly one
\* entry, also when the same envelope was stored before.
C10_EveryFrameAppends ==
    [][\A s \in 1..Len(sockets), event \in Frames(Cur) :
          (mounted /\ Stored(event) /\ DeliverFrame(s, event)) =>
              /\ Len(messages') = Len(messages) + 1
              /\ ~messages'[Len(messages')].isUser
              /\ messages'[Len(messages')].originId = event.originId]_vars

C10_Witness ==
    /\ Len(messages) = 3
    /\ messages[1].isUser
    /\ ~messages[2].isUser
    /\ ~messages[3].isUser
    /\ messages[2].originId = messages[1].originId
    /\ messages[3].originId = messages[1].originId

\* C11: clearing the chat empties the log in one step and changes nothing
\* else: the connection state, the socket, the transports, the wait for an
\* answer, the input, the timers and the session are as before.
C11_ClearOnlyEmptiesLog ==
    [][ClickClear =>
          /\ messages' = <<>>
          /\ UNCHANGED <<component, mounted, sockets, wsRef, socket,
                         isConnected, isLoading, input, timers, now, outbox,
                         nProcessed>>
          /\ UNCHANGED authVars]_vars

\* a log that held entries was cleared while an answer was awaited
C11_Witness ==
    /\ component = "ChatInterface"
    /\ messages = <<>>
    /\ nProcessed >= 1
    /\ isLoading
    /\ socket # 0
    /\ sockets[socket].readyState = OPEN

\* the part of the session that the hook exposes and persists
SessionState == <<user, token, isAuthenticated, authIsLoading, error, storage>>

\* the credentials are absent from memory and from durable storage
Absent(tok, usr, auth, stored) ==
    tok = Null /\ usr = Null /\ ~auth /\ stored = Null

\* C12: logout() is idempotent: after a call the token and the user are
\* absent from memory and from durable storage and isAuthenticated is false;
\* a second call in succession leaves exactly the same state.
C12_LogoutIdempotent ==
    [][Logout =>
          /\ Absent(token', user', isAuthenticated', storage')
          /\ lastEvent \in {"logout", "logoutAgain", "logoutWithoutSession"}
                 => UNCHANGED SessionState]_vars

\* logout was called twice in succession, the first time with a session
C12_Witness ==
    /\ lastEvent = "logoutAgain"
    /\ Absent(token, user, isAuthenticated, storage)

\* C13: a restore resolves to one of two outcomes: the session is
\* authenticated with the persisted token and the user, or the persisted
\* token is removed, the credentials are absent and the reason is recorded.
C13_RestoreOutcomes ==
    [][(inflight.op = "restore" /\ inflight'.op # "restore") =>
          \/ /\ lastEvent' = "restoreOk"
             /\ isAuthenticated'
             /\ token' = inflight.token
             /\ storage' = inflight.token
             /\ user' \in Users
             /\ error' = Null
             /\ ~authIsLoading'
          \/ /\ lastEvent' = "restoreFailed"
             /\ Absent(token', user', isAuthenticated', storage')
             /\ error' \in ErrorReasons
             /\ ~authIsLoading']_vars

\* the restore of a persisted token was rejected
C13_Witness ==
    /\ lastEvent = "restoreFailed"
    /\ storage = Null
    /\ error \in ErrorReasons

\* C14: a failed login stores no partial state: whether the token exchange
\* or the identity fetch fails, afterwards the credentials are absent from
\* memory and from durable storage, isLoading is false and the error is set.
C14_NoPartialState ==
    [][(inflight.op = "login" /\ (PostRejects \/ GetRejects)) =>
          /\ Absent(token', user', isAuthenticated', storage')
          /\ ~authIsLoading'
          /\ error' \in ErrorReasons]_vars

\* the login failed after the token had been received
C14_Witness ==
    /\ lastEvent = "loginFailedAtGet"
    /\ storage = Null
    /\ error \in ErrorReasons

\* the login calls that have not resolved
outstandingLogins == waiting + (IF inflight.op = "login" THEN 1 ELSE 0)

\* C15: at most one login call is outstanding at any time, and the controls
\* of the form are disabled while it is.
C15_LoginSerialized ==
    /\ outstandingLogins <= 1
    /\ outstandingLogins = 1 =>
           Login_buttonDisabled(CurAuth) /\ Login_fieldDisabled(CurAuth)

\* a login is in flight
C15_Witness ==
    /\ inflight.op = "login"
    /\ loginIsLoading

\* C16: once no operation is in flight, isAuthenticated is true exactly if
\* the token and the user are present, and the token in durable storage is
\* the token in memory; initially, with empty storage, the state is blank.
C16_SessionConsistent ==
    /\ inflight.op = "none" =>
           /\ isAuthenticated <=> (token # Null /\ user # Null)
           /\ storage = token
    /\ (lastEvent = "start" /\ storage = Null) =>
           /\ user = Null
           /\ token = Null
           /\ ~isAuthenticated
           /\ ~authIsLoading
           /\ error = Null

\* a login has succeeded
C16_Witness ==
    /\ lastEvent = "loginOk"
    /\ inflight.op = "none"
    /\ isAuthenticated
    /\ token \in Tokens
    /\ storage = token

\* C17 (as claimed): the chat view is rendered exactly if the session is
\* authenticated.
C17_ChatIffAuthenticated ==
    (App_render(Cur, CurAuth) = "chat") <=> isAuthenticated

\* C18 (as claimed): a transport is connecting or open only while the
\* session credentials are present; when they become absent it is closed.
C18_TransportNeedsCredentials ==
    \A s \in 1..Len(sockets) :
        sockets[s].readyState \in {CONNECTING, OPEN} => token # Null

\* the frame carries the session token
IsAuthFrame(payload) == "token" \in DOMAIN payload

\* the frame is a chat message of the user
IsChatFrame(payload) ==
    DOMAIN payload = {"message", "user_id"} \/ DOMAIN payload = {"text"}

\* C19 (as claimed): the first frame that the client sends on a socket is
\* an authentication frame carrying the session token.
C19_AuthFrameFirst ==
    \A i \in 1..Len(outbox) :
        (\A j \in 1..(i - 1) : outbox[j].sock # outbox[i].sock) =>
            IsAuthFrame(outbox[i].payload)

\* C19 (amended): there is no handshake: nothing is sent when a socket
\* opens, and every frame that the client sends, the first on a socket
\* included, is a chat message of the user.
C19_NoHandshake ==
    [][/\ TransportOpen => outbox' = outbox
       /\ \A i \in 1..Len(outbox') : IsChatFrame(outbox'[i].payload)]_vars

\* the first frame on an open socket is a chat message, sent before any
\* entry came from the server
C19_Witness ==
    /\ Len(outbox) = 1
    /\ outbox[1].outcome = "sent"
    /\ IsChatFrame(outbox[1].payload)
    /\ nProcessed = 1
    /\ Len(messages) = 1
    /\ messages[1].isUser

\* C20: a submit that hands a frame to the socket leaves the client
\* loading, and a message of the server that arrives while the component is
\* mounted ends the loading.
C20_LoadingUntilResponse ==
    [][/\ (/\ Len(outbox') = Len(outbox) + 1
           /\ outbox'[Len(outbox')].outcome # "threw") => isLoading'
       /\ \A s \in 1..Len(sockets), event \in Frames(Cur) :
              (mounted /\ event.json /\ DeliverFrame(s, event)) => ~isLoading']_vars

\* a message was sent and its answer has arrived
C20_Witness ==
    /\ ~isLoading
    /\ Len(outbox) = 1
    /\ outbox[1].outcome = "sent"
    /\ outbox[1].replied
    /\ Len(messages) = 2
    /\ messages[1].isUser
    /\ ~messages[2].isUser

\* the socket that the component holds
current == IF component = "App" THEN wsRef ELSE socket

\* C21 (as claimed): after a failure of the transport the view shows an
\* error or a disconnected state, never what it shows for a healthy
\* connection.
C21_FailureIsVisible ==
    (mounted /\ current # 0 /\ sockets[current].readyState = CLOSED) =>
        connectionStatus(Cur) \in {"Disconnected", "Error"}

\* the frame that does not decode
Malformed(event) == ~event.json

\* C22: a received frame that does not decode is dropped: the log, the
\* connection state, the sockets and the timers are as before, so the
\* connection stays up and later frames are processed as usual.
C22_MalformedDropped ==
    [][\A s \in 1..Len(sockets), event \in Frames(Cur) :
          (Malformed(event) /\ DeliverFrame(s, event)) =>
              UNCHANGED <<messages, isConnected, sockets, wsRef, socket,
                          timers, outbox, nProcessed>>]_vars

\* a frame that does not decode arrives on the open socket while an answer
\* is awaited: the step leaves the state as it is
C22_Witness ==
    /\ mounted
    /\ isLoading
    /\ current # 0
    /\ sockets[current].readyState = OPEN
    /\ Len(messages) = 1
    /\ \E event \in Frames(Cur) :
           Malformed(event) /\ ENABLED (DeliverFrame(current, event) /\ UNCHANGED vars)

\* the entry carries the mark of a failed delivery
MarkedFailed(entry) ==
    "deliveryState" \in DOMAIN entry /\ entry.deliveryState = "Failed"

\* the frame of request i was not transmitted: send threw or discarded it
Undelivered(box, i) == box[i].outcome \in {"threw", "dropped"}

\* C23 (as claimed): the entry of a user message that could not be delivered
\* is marked Failed.
C23_UndeliveredMarkedFailed ==
    \A i \in 1..Len(outbox), k \in 1..Len(messages) :
        (Undelivered(outbox, i) /\ messages[k].isUser /\ messages[k].originId = i)
            => MarkedFailed(messages[k])

\* C23 (amended): the entry of a user message that could not be delivered
\* stays in the log until the log is cleared, and it carries no mark: it is
\* an entry like that of a delivered message.
C23_UndeliveredStaysUnmarked ==
    [][~ClickClear =>
          \A i \in 1..Len(outbox') :
              (/\ Undelivered(outbox', i)
               /\ \/ i > Len(outbox)
                  \/ \E k \in 1..Len(messages) :
                         messages[k].isUser /\ messages[k].originId = i)
              => \E k \in 1..Len(messages') :
                     /\ messages'[k].isUser
                     /\ messages'[k].originId = i
                     /\ "deliveryState" \notin DOMAIN messages'[k]]_vars

\* send threw on the connecting socket; the entry is in the log
C23_Witness ==
    /\ component = "ChatInterface"
    /\ Len(outbox) >= 1
    /\ outbox[1].outcome = "threw"
    /\ Len(messages) >= 1
    /\ messages[1].isUser
    /\ messages[1].originId = 1
    /\ ~isLoading

\* the text of an entry of the log
EntryText(entry) ==
    IF "text" \in DOMAIN entry THEN entry.text ELSE entry.content

\* C24 (as claimed): every entry of the log has a non-empty text; a frame
\* that carries no message text is never stored.
C24_EntriesHaveText ==
    \A k \in 1..Len(messages) : EntryText(messages[k]) \notin {<<>>, Undefined}

\* C25 (as claimed): no two entries of the log have the same id.
C25_UniqueIds ==
    component = "ChatInterface" =>
        \A j, k \in 1..Len(messages) :
            j # k => messages[j].id # messages[k].id

\* C26: the log is append-only: but for a clear, every step leaves the
\* entries it held unchanged and in the same order; the log before the step
\* is a prefix of the log after it.
C26_AppendOnly ==
    [][~ClickClear =>
          /\ Len(messages') >= Len(messages)
          /\ SubSeq(messages', 1, Len(messages)) = messages]_vars

\* entries of the user and of the server were appended, and the connection
\* was lost and made again
C26_Witness ==
    /\ Len(messages) = 3
    /\ Len(sockets) = 2
    /\ sockets[1].readyState = CLOSED
    /\ messages[1].seq = 1
    /\ messages[2].seq = 2
    /\ messages[3].seq = 3

\* C27 (as claimed): every frame of a user message carries an originId,
\* different for every send.
C27_FramesCarryOriginId ==
    \A i, j \in 1..Len(outbox) :
        /\ "originId" \in DOMAIN outbox[i].payload
        /\ i # j => outbox[i].payload.originId # outbox[j].payload.originId

\* C27 (amended): the frame of a user message carries the text of the entry
\* that the same submit appends and nothing that identifies the entry: App
\* sends the message and the user_id "default", ChatInterface the text.
C27_FramesCarryTextOnly ==
    [][Len(outbox') = Len(outbox) + 1 =>
          LET frame == outbox'[Len(outbox')].payload
              entry == messages'[Len(messages')]
          IN  /\ Len(messages') = Len(messages) + 1
              /\ component = "App" =>
                     /\ DOMAIN frame = {"message", "user_id"}
                     /\ frame.message = entry.text
                     /\ frame.user_id = "default"
              /\ component = "ChatInterface" =>
                     /\ DOMAIN frame = {"text"}
                     /\ frame.text = entry.content]_vars

\* two frames with the same text were sent: nothing tells them apart
C27_Witness ==
    /\ Len(outbox) = 2
    /\ outbox[1].payload = outbox[2].payload
    /\ outbox[1].outcome = "sent"
    /\ outbox[2].outcome = "sent"

\* C28 (as claimed): clearing the chat sends a clear_history event over the
\* socket (stated for a clear of a log that holds entries).
C28_ClearNotifiesServer ==
    [][(ClickClear /\ messages # <<>>) =>
          /\ Len(outbox') = Len(outbox) + 1
          /\ "type" \in DOMAIN outbox'[Len(outbox')].payload
          /\ outbox'[Len(outbox')].payload.type = "clear_history"]_vars

\* C29 (as claimed): the indicator, shown while isLoading, never stays on
\* for ever: once on, it is turned off again.
C29_IndicatorReverts == isLoading ~> ~isLoading

\* C29 (amended): the indicator has no timeout: it is turned off only by a
\* frame of the server that parses or, in ChatInterface, by an error of the
\* socket; no timer and no passing of time turns it off.
C29_IndicatorEndsByEventOnly ==
    [][(isLoading /\ ~isLoading') =>
          \/ TransportMessage
          \/ component = "ChatInterface" /\ TransportClose]_vars

\* the connection was lost and made again, and the indicator is still on
C29_Witness ==
    /\ component = "App"
    /\ isLoading
    /\ Len(sockets) = 2
    /\ sockets[1].readyState = CLOSED
    /\ wsRef = 2

\* C30 (as claimed): an open connection on which nothing arrives is closed
\* by the client.
C30_DeadConnectionClosed ==
    \A s \in 1..MaxSockets :
        (s <= Len(sockets) /\ sockets[s].readyState = OPEN)
            ~> (s <= Len(sockets) /\ sockets[s].readyState # OPEN)

\* C30 (amended): there is no heartbeat: an open socket leaves the open
\* state only when the server or the network closes it or when the
\* component is unmounted, never by a timer or another step of the client.
C30_OpenUntilClosedOrUnmount ==
    [][\A s \in 1..Len(sockets) :
          (sockets[s].readyState = OPEN /\ sockets'[s].readyState # OPEN) =>
              TransportClosing \/ TransportClose \/ Unmount]_vars

\* a request was sent on the open connection, no answer came and no timer
\* is pending: nothing will happen unless the transport moves
C30_Witness ==
    /\ component = "App"
    /\ mounted
    /\ isConnected
    /\ sockets[wsRef].readyState = OPEN
    /\ timers = EmptyBag
    /\ Len(outbox) = 1
    /\ outbox[1].outcome = "sent"
    /\ ~outbox[1].replied
    /\ isLoading

\* the kind of failure that a message of the form tells the user
ReportedKind(message) ==
    IF message = "Invalid username or password" THEN "InvalidCredentials"
    ELSE message

\* C31 (as claimed): after a failed login the message that the form shows
\* tells the kind of failure that the login reported.
C31_ErrorNamesKind ==
    lastEvent \in {"loginFailedAtPost", "loginFailedAtGet"} =>
        ReportedKind(loginError) = error

\* C32 (as claimed): there is never a user entry in the log whose frame was
\* not transmitted.
C32_EveryUserEntryTransmitted ==
    \A k \in 1..Len(messages) :
        messages[k].isUser => outbox[messages[k].originId].outcome = "sent"

\* C33 (as claimed): the client does not stay blocked: once the connection
\* is up again after a send on an earlier socket, sending is enabled.
C33_EnabledAfterReconnect ==
    (/\ component = "App"
     /\ mounted
     /\ isConnected
     /\ sockets[wsRef].readyState = OPEN
     /\ Len(outbox) >= 1
     /\ \A i \in 1..Len(outbox) : outbox[i].sock < wsRef)
    => ~App_inputDisabled(Cur)

\* C34 (as claimed): in App, whenever isConnected is true the socket held
\* in wsRef is open.
C34_ConnectedMeansOpen ==
    (component = "App" /\ isConnected) => sockets[wsRef].readyState = OPEN

\* C34 (amended): in App, while mounted, whenever isConnected is true the
\* socket held in wsRef is open or closing, so send never throws on a frame
\* of handleSubmit, though a closing socket discards it.
C34_ConnectedMeansOpenOrClosing ==
    component = "App" =>
        /\ (mounted /\ isConnected) =>
               wsRef # 0 /\ sockets[wsRef].readyState \in {OPEN, CLOSING}
        /\ \A i \in 1..Len(outbox) : outbox[i].outcome \in {"sent", "dropped"}

\* the client is reported connected while its socket is closing, and a
\* frame was discarded
C34_Witness ==
    /\ component = "App"
    /\ mounted
    /\ isConnected
    /\ sockets[wsRef].readyState = CLOSING
    /\ Len(outbox) >= 1
    /\ outbox[Len(outbox)].outcome = "dropped"

\* the number of reconnect timers that are pending
NReconnect ==
    CopiesIn([fn |-> "connectWebSocket", delay |-> ReconnectDelay], timers)

\* C35 (as claimed): in App, while mounted, the connecting or open sockets
\* and the pending reconnect timers are exactly one together.
C35_OneLiveOrPending ==
    (component = "App" /\ mounted) =>
        Cardinality({s \in 1..Len(sockets) : Live(s)}) + NReconnect = 1

\* C35 (amended): in App, while mounted, the sockets that are not closed
\* (connecting, open or closing) and the pending reconnect timers are
\* exactly one together.
C35_OneUnclosedOrPending ==
    (component = "App" /\ mounted) =>
        Cardinality({s \in 1..Len(sockets) : sockets[s].readyState # CLOSED})
            + NReconnect = 1

\* a reconnect timer has made the second socket, which is closing: neither
\* a live socket nor a timer
C35_Witness ==
    /\ component = "App"
    /\ mounted
    /\ Len(sockets) = 2
    /\ sockets[1].readyState = CLOSED
    /\ sockets[2].readyState = CLOSING
    /\ NReconnect = 0

\* C36: a submit of an empty or blank input is a no-op in every state: the
\* handler leaves the log, the outbox, the loading flag, the input and all
\* the rest as they are.
C36_BlankSubmitIsNoOp ==
    Trim(input) = <<>> =>
        IF component = "App" THEN handleSubmit(Cur) = Cur
        ELSE handleSend(Cur) = Cur /\ handleKeyPress(Cur) = Cur

\* a blank input while the socket is open and no answer is awaited: the
\* guard on the input alone stops the submit
C36_Witness ==
    /\ component = "ChatInterface"
    /\ mounted
    /\ input = <<" ">>
    /\ ~isLoading
    /\ socket # 0
    /\ sockets[socket].readyState = OPEN

====
